---------------------------- MODULE Spec2Model ----------------------------
(***************************************************************************)
(* RELIC low-level kernels: Comba squaring (relic_bn_sqr_low.c), Karatsuba *)
(* multiplication in the quadratic and cubic extensions                    *)
(* (relic_pp_mul_low.c) and the x86 architecture layer (arch_init,         *)
(* arch_clean, arch_cycles, arch_lzcnt).                                   *)
(*                                                                         *)
(* Digits are WBits-bit words (B = 2^WBits); every digit operation of the  *)
(* C code is taken modulo B, as unsigned dig_t arithmetic is.  C arrays    *)
(* are sequences: the C element x[j] is x[j + 1] here (see At).            *)
(***************************************************************************)
EXTENDS Integers, Sequences, FiniteSets, TLC

VARIABLES
    pc,         \* position of the running call
    size,       \* bn kernels: number of digits of a
    a,          \* bn kernels: the operand, little-endian digits
    c,          \* bn kernels: the result / accumulator digits
    cin,        \* bn_sqra_low: the accumulator as it was at the call
    fr,         \* bn kernels: the locals of the running call
    ret,        \* bn_sqra_low: the returned carry
    cfg,        \* pp kernels: the field parameterization [W, p, qnr, cnr]
    fa,         \* pp kernels: the first operand, a tuple of field elements
    fb,         \* pp kernels: the second operand
    dn,         \* pp kernels: the double-width output of fp2/fp3_muln_low
    dc,         \* pp kernels: the double-width output of fp2_mulc_low
    out,        \* fp2/fp3_mulm_low: the caller's output c
    out0,       \* fp2/fp3_mulm_low: the caller's output as it was at the call
    t,          \* fp2/fp3_mulm_low: the scoped buffer, [h: handles, v: values]
    mem,        \* double-width buffers: [live, base, twice]
    err,        \* the error the running call has signalled, or "none"
    ran,        \* fp2/fp3_mulm_low: the steps of the TRY body that have run
    ctx,        \* fp2/fp3_mulm_low: [encl, fault, got], the call's context
    lzcnt_ptr,  \* arch: core_get()->lzcnt_ptr, the dispatch target
    hw,         \* arch: what has_lzcnt_hard() answers on this processor
    wsize,      \* arch: WSIZE, the configured word size
    life,       \* arch: the thread calling arch_init / arch_clean
    rd,         \* arch: the threads calling arch_lzcnt / arch_cycles
    window      \* arch: "open" from the end of an arch_init to the start of
                \* the next arch_clean

bnVars == <<size, a, c, cin, fr, ret>>
ppVars == <<cfg, fa, fb, dn, dc>>
mulmVars == <<out, out0, t, mem, err, ran, ctx>>
archVars == <<lzcnt_ptr, hw, wsize, life, rd, window>>
vars == <<pc, bnVars, ppVars, mulmVars, archVars>>

(* What the steps of one component leave alone.                            *)
notBn == <<ppVars, mulmVars, archVars>>
notPp == <<bnVars, mulmVars, archVars>>
notMulm == <<bnVars, ppVars, archVars>>
notArch == <<pc, bnVars, ppVars, mulmVars>>

(***************************************************************************)
(* Bounds of the model.                                                    *)
(***************************************************************************)
WBits == 2
MaxSize == 3

B == 2 ^ WBits
Dig == 0 .. (B - 1)
Sizes == 1 .. MaxSize

(* Operand digits: every digit when B = 4, the carry-relevant ones above.  *)
ADigits == {0, 1, B \div 2, B - 1}
(* Accumulator digits at the call of bn_sqra_low.                          *)
CDigits == {0, 1, B - 2, B - 1}

(***************************************************************************)
(* The state of the kernels a specification does not run.                  *)
(***************************************************************************)
NoCfg == [W |-> 0, p |-> 0, qnr |-> 0, cnr |-> 0]

IdleBn ==
    /\ size = 0
    /\ a = << >>
    /\ c = << >>
    /\ cin = << >>
    /\ fr = [i |-> 0]
    /\ ret = 0

IdlePp ==
    /\ cfg = NoCfg
    /\ fa = << >>
    /\ fb = << >>
    /\ dn = << >>
    /\ dc = << >>

IdleMulm ==
    /\ out = << >>
    /\ out0 = << >>
    /\ t = [h |-> << >>, v |-> << >>]
    /\ mem = [live |-> 0, base |-> 0, twice |-> FALSE]
    /\ err = "none"
    /\ ran = {}
    /\ ctx = [encl |-> FALSE, fault |-> "none", got |-> 0]

IdleArch ==
    /\ lzcnt_ptr = "NULL"
    /\ hw = FALSE
    /\ wsize = 0
    /\ life = [pc |-> "idle"]
    /\ rd = << >>
    /\ window = "none"

(***************************************************************************)
(* Helpers.                                                                *)
(***************************************************************************)
At(s, j) == s[j + 1]

Bit(cond) == IF cond THEN 1 ELSE 0

RECURSIVE Val(_)
(* The integer a little-endian digit sequence denotes in base B.           *)
Val(s) == IF s = << >> THEN 0 ELSE Head(s) + B * Val(Tail(s))

Prefix(s, n) == SubSeq(s, 1, n)

DigSeqs(n, D) == [1 .. n -> D]

(* RLC_MUL_DIG(H, L, A, B): the double-width product of two digits.        *)
MulHi(x, y) == (x * y) \div B
MulLo(x, y) == (x * y) % B

(***************************************************************************)
(* relic_bn_sqr_low.c: the Comba macros.  R is the triple register         *)
(* [r2, r1, r0].                                                           *)
(***************************************************************************)
COMBA_STEP_SQR_NoDoublingCarry(R, x, y) ==
    LET _r0 == MulLo(x, y)
        _r1 == MulHi(x, y)
        _s0 == (_r0 + _r0) % B
        _s1 == (_r1 + _r1 + Bit(_s0 < _r0)) % B
        _r  == R.r1
        R0a == (R.r0 + _s0) % B
        R1a == (R.r1 + Bit(R0a < _s0)) % B
        R2a == (R.r2 + Bit(R1a < _r)) % B
        R1b == (R1a + _s1) % B
        R2b == (R2a + Bit(R1b < _s1)) % B
    IN  [r2 |-> R2b, r1 |-> R1b, r0 |-> R0a]

COMBA_STEP_SQR(R, x, y) ==
    LET _r0 == MulLo(x, y)
        _r1 == MulHi(x, y)
        _s0 == (_r0 + _r0) % B
        _s1 == (_r1 + _r1 + Bit(_s0 < _r0)) % B
        _r  == R.r1
        R0a == (R.r0 + _s0) % B
        R1a == (R.r1 + Bit(R0a < _s0)) % B
        R2a == (R.r2 + Bit(R1a < _r)) % B
        R1b == (R1a + _s1) % B
        R2b == (R2a + Bit(R1b < _s1)) % B
        R2c == (R2b + Bit(_s1 < _r1)) % B
    IN  [r2 |-> R2c, r1 |-> R1b, r0 |-> R0a]

COMBA_FINAL(R, x) ==
    LET _r0 == MulLo(x, x)
        _r1 == MulHi(x, x)
        _r  == R.r1
        R0a == (R.r0 + _r0) % B
        R1a == (R.r1 + Bit(R0a < _r0)) % B
        R2a == (R.r2 + Bit(R1a < _r)) % B
        R1b == (R1a + _r1) % B
        R2b == (R2a + Bit(R1b < _r1)) % B
    IN  [r2 |-> R2b, r1 |-> R1b, r0 |-> R0a]

RECURSIVE CombaPairs(_, _, _, _, _)
(* The inner for loop: n steps, tmpa going up from index ia and tmpb going *)
(* down from index ib.                                                     *)
CombaPairs(R, s, ia, ib, n) ==
    IF n = 0 THEN R
    ELSE CombaPairs(COMBA_STEP_SQR(R, At(s, ia), At(s, ib)), s, ia + 1, ib - 1, n - 1)

(* One iteration of the first outer loop: column i, 0 <= i < size.         *)
SqrnColumnLow(R, s, i) ==
    LET n  == (i + 1) \div 2
        R1 == CombaPairs(R, s, 0, i, n)
    IN  IF i % 2 = 0 THEN COMBA_FINAL(R1, At(s, n)) ELSE R1

(* One iteration of the second outer loop: column size + i.                *)
SqrnColumnHigh(R, s, n, i) ==
    LET m  == (n - 1 - i) \div 2
        R1 == CombaPairs(R, s, i + 1, n - 1, m)
    IN  IF (n - i) % 2 = 0 THEN COMBA_FINAL(R1, At(s, i + 1 + m)) ELSE R1

(***************************************************************************)
(* bn_sqrn_low(c, a, size).  fr = [i, k, r0, r1, r2]: k is the offset of   *)
(* the moving pointer c.  The output buffer holds B - 1 in every digit at  *)
(* the call, so a digit the kernel never stores stays visible.             *)
(***************************************************************************)
InitSqrn ==
    /\ size \in Sizes
    /\ a \in DigSeqs(size, Dig)
    /\ c = [j \in 1 .. 2 * size |-> B - 1]
    /\ cin = << >>
    /\ fr = [i |-> 0, k |-> 0, r2 |-> 0, r1 |-> 0, r0 |-> 0]
    /\ ret = 0
    /\ pc = "sqrn_low"
    /\ IdlePp
    /\ IdleMulm
    /\ IdleArch

SqrnShift(R, i, k) == [i |-> i, k |-> k, r2 |-> 0, r1 |-> R.r2, r0 |-> R.r1]

SqrnLow ==
    /\ pc = "sqrn_low"
    /\ LET R == SqrnColumnLow(fr, a, fr.i)
       IN  /\ c' = [c EXCEPT ![fr.k + 1] = R.r0]
           /\ IF fr.i + 1 < size
              THEN /\ fr' = SqrnShift(R, fr.i + 1, fr.k + 1)
                   /\ pc' = "sqrn_low"
              ELSE /\ fr' = SqrnShift(R, 0, fr.k + 1)
                   /\ pc' = "sqrn_high"
    /\ UNCHANGED <<size, a, cin, ret>>
    /\ UNCHANGED notBn

SqrnHigh ==
    /\ pc = "sqrn_high"
    /\ LET R == SqrnColumnHigh(fr, a, size, fr.i)
       IN  /\ c' = [c EXCEPT ![fr.k + 1] = R.r0]
           /\ fr' = SqrnShift(R, fr.i + 1, fr.k + 1)
           /\ pc' = IF fr.i + 1 < size THEN "sqrn_high" ELSE "sqrn_done"
    /\ UNCHANGED <<size, a, cin, ret>>
    /\ UNCHANGED notBn

NextSqrn == SqrnLow \/ SqrnHigh

SpecSqrn == InitSqrn /\ [][NextSqrn]_vars

(* C1: when bn_sqrn_low returns, the 2*size digits of c denote exactly the *)
(* square of a, and the triple register (r0, r1, r2) holds no carry.       *)
C1_SqrnExact ==
    pc = "sqrn_done" =>
        /\ Len(c) = 2 * size
        /\ Val(c) = Val(a) * Val(a)
        /\ fr.k = 2 * size
        /\ fr.r0 = 0 /\ fr.r1 = 0 /\ fr.r2 = 0

(* The all-ones operand of the largest size has been squared.              *)
C1_Witness ==
    /\ pc = "sqrn_done"
    /\ size = MaxSize
    /\ \A j \in 1 .. size : a[j] = B - 1

(***************************************************************************)
(* bn_sqra_low(c, a, size).  fr = [i, t, c0, c1, tests]: tests are the     *)
(* four overflow tests of the last loop iteration, in source order.        *)
(***************************************************************************)
NoTests == <<FALSE, FALSE, FALSE, FALSE>>

(* Lines 90-98: the square of a[0] is added to c[0].                       *)
SqraHead(cv, s) ==
    LET t_  == At(s, 0)
        _r0 == MulLo(t_, t_)
        _r1 == MulHi(t_, t_)
        r0  == (_r0 + At(cv, 0)) % B
        r1  == (_r1 + Bit(r0 < _r0)) % B
    IN  [c |-> [cv EXCEPT ![1] = r0],
         fr |-> [i |-> 1, t |-> t_, c0 |-> r1, c1 |-> 0, tests |-> NoTests]]

(* Lines 101-115 with the last overflow test (c0 < c1) left out.           *)
SqraIter_NoCommitCarry(f, ci, ai) ==
    LET _r0 == MulLo(f.t, ai)
        _r1 == MulHi(f.t, ai)
        r0  == (_r0 + _r0) % B
        r1  == (_r1 + _r1 + Bit(r0 < _r0)) % B
        s0  == (r0 + f.c0) % B
        s1  == (r1 + Bit(s0 < r0)) % B
        t0  == (s0 + ci) % B
        t1  == (s1 + Bit(t0 < s0)) % B
        c0  == (t1 + f.c1) % B
        ts  == <<t1 < s1, s1 < r1, r1 < _r1, FALSE>>
    IN  [ci |-> t0,
         fr |-> [i |-> f.i + 1, t |-> f.t, c0 |-> c0,
                 c1 |-> Bit(ts[1] \/ ts[2] \/ ts[3] \/ ts[4]), tests |-> ts]]

(* Lines 101-115 with the doubled high word taken without the carry of the *)
(* doubled low word.                                                       *)
SqraIter_NoDoublingCarry(f, ci, ai) ==
    LET _r0 == MulLo(f.t, ai)
        _r1 == MulHi(f.t, ai)
        r0  == (_r0 + _r0) % B
        r1  == (_r1 + _r1) % B
        s0  == (r0 + f.c0) % B
        s1  == (r1 + Bit(s0 < r0)) % B
        t0  == (s0 + ci) % B
        t1  == (s1 + Bit(t0 < s0)) % B
        c0  == (t1 + f.c1) % B
        ts  == <<t1 < s1, s1 < r1, r1 < _r1, c0 < f.c1>>
    IN  [ci |-> t0,
         fr |-> [i |-> f.i + 1, t |-> f.t, c0 |-> c0,
                 c1 |-> Bit(ts[1] \/ ts[2] \/ ts[3] \/ ts[4]), tests |-> ts]]

(* Lines 101-115: one iteration of the loop, on c[i] and a[i].             *)
SqraIter(f, ci, ai) ==
    LET _r0 == MulLo(f.t, ai)
        _r1 == MulHi(f.t, ai)
        r0  == (_r0 + _r0) % B
        r1  == (_r1 + _r1 + Bit(r0 < _r0)) % B
        s0  == (r0 + f.c0) % B
        s1  == (r1 + Bit(s0 < r0)) % B
        t0  == (s0 + ci) % B
        t1  == (s1 + Bit(t0 < s0)) % B
        c0  == (t1 + f.c1) % B
        ts  == <<t1 < s1, s1 < r1, r1 < _r1, c0 < f.c1>>
    IN  [ci |-> t0,
         fr |-> [i |-> f.i + 1, t |-> f.t, c0 |-> c0,
                 c1 |-> Bit(ts[1] \/ ts[2] \/ ts[3] \/ ts[4]), tests |-> ts]]

(* Lines 117-119: the last digit of the accumulator and the return value.  *)
SqraTail(f, cs) ==
    LET top == (cs + f.c0) % B
    IN  [cs |-> top, ret |-> f.c1 + Bit(top < f.c0)]

InitSqra ==
    /\ size \in Sizes
    /\ a \in DigSeqs(size, ADigits)
    /\ c \in DigSeqs(size + 1, CDigits)
    /\ cin = c
    /\ fr = [i |-> 0, t |-> 0, c0 |-> 0, c1 |-> 0, tests |-> NoTests]
    /\ ret = 0
    /\ pc = "sqra_head"
    /\ IdlePp
    /\ IdleMulm
    /\ IdleArch

SqraFirst ==
    /\ pc = "sqra_head"
    /\ LET h == SqraHead(c, a)
       IN  /\ c' = h.c
           /\ fr' = h.fr
    /\ pc' = "sqra_loop"
    /\ UNCHANGED <<size, a, cin, ret>>
    /\ UNCHANGED notBn

SqraStep ==
    /\ pc = "sqra_loop"
    /\ fr.i < size
    /\ LET n == SqraIter(fr, At(c, fr.i), At(a, fr.i))
       IN  /\ c' = [c EXCEPT ![fr.i + 1] = n.ci]
           /\ fr' = n.fr
    /\ UNCHANGED <<pc, size, a, cin, ret>>
    /\ UNCHANGED notBn

SqraLast ==
    /\ pc = "sqra_loop"
    /\ ~(fr.i < size)
    /\ LET e == SqraTail(fr, At(c, size))
       IN  /\ c' = [c EXCEPT ![size + 1] = e.cs]
           /\ ret' = e.ret
    /\ pc' = "sqra_done"
    /\ UNCHANGED <<size, a, cin, fr>>
    /\ UNCHANGED notBn

NextSqra == SqraFirst \/ SqraStep \/ SqraLast

SpecSqra == InitSqra /\ [][NextSqra]_vars

(* The operand with its lowest digit cleared.                              *)
HighPart(s) == Val([s EXCEPT ![1] = 0])

(* The row of the square led by a[0], up to and excluding digit n.         *)
Row(s, n) ==
    LET a0 == At(s, 0)
    IN  a0 * a0 + 2 * a0 * Val([j \in 1 .. n |-> IF j = 1 THEN 0 ELSE s[j]])

Combined == Val(c) + ret * B ^ (size + 1)

(* C4 as stated: the accumulator and the returned carry, read as one       *)
(* integer, equal the old accumulator plus the square of a.                *)
C4_AccumulatesSquare ==
    pc = "sqra_done" => Combined = Val(cin) + Val(a) * Val(a)

(* C4 amended: the accumulator and the returned carry, read as one         *)
(* integer, equal the old accumulator plus the square of a less the square *)
(* of a's digits above a[0]; that is the old accumulator plus the square   *)
(* of a exactly when those digits are all zero, as they are for size 1.    *)
C4_AccumulatesSquareLessHigh ==
    pc = "sqra_done" =>
        /\ Combined = Val(cin) + Val(a) * Val(a) - HighPart(a) * HighPart(a)
        /\ (HighPart(a) = 0 => Combined = Val(cin) + Val(a) * Val(a))

(* A call with a nonzero digit above a[0] has returned with carry 2.       *)
C4_Witness ==
    /\ pc = "sqra_done"
    /\ size = MaxSize
    /\ HighPart(a) # 0
    /\ ret = 2

TrueTests(ts) == Cardinality({j \in 1 .. 4 : ts[j]})

(* C10: bn_sqra_low adds the row of the square led by a[0] and loses no    *)
(* carry: in the loop, before iteration i, digits 0..i-1 of c with c0 at   *)
(* digit i and the delayed carry c1 at digit i+1 equal the old digits plus *)
(* the row so far; c1 is 0 or 1 and at most one of the four overflow tests *)
(* of an iteration is true; on return the accumulator and the carry r, in  *)
(* {0, 1, 2}, equal the old accumulator plus the whole row.                *)
C10_RowNoCarryLost ==
    /\ pc = "sqra_loop" =>
        /\ fr.c1 \in {0, 1}
        /\ TrueTests(fr.tests) <= 1
        /\ Val(Prefix(c, fr.i)) + fr.c0 * B ^ fr.i + fr.c1 * B ^ (fr.i + 1)
             = Val(Prefix(cin, fr.i)) + Row(a, fr.i)
    /\ pc = "sqra_done" =>
        /\ ret \in {0, 1, 2}
        /\ Combined = Val(cin) + Row(a, size)

(* A delayed carry computed in one iteration is pending while a later      *)
(* iteration is still to run.                                              *)
C10_Witness ==
    /\ pc = "sqra_loop"
    /\ fr.i >= 2
    /\ fr.i < size
    /\ fr.c1 = 1

(***************************************************************************)
(* relic_pp_mul_low.c.  A field parameterization k = [W, p, qnr, cnr]      *)
(* fixes the word width, the prime and the two non-residue indices.  A     *)
(* field element is the integer its FP_DIGS digits denote, a double-width  *)
(* value the integer its 2 * FP_DIGS digits denote.                        *)
(***************************************************************************)
RECURSIVE BitLen(_)
BitLen(n) == IF n = 0 THEN 0 ELSE 1 + BitLen(n \div 2)

(* FP_PRIME, FP_DIGS and the radix of one field element.                   *)
FP_PRIME(k) == BitLen(k.p)
FP_DIGS(k) == (FP_PRIME(k) + k.W - 1) \div k.W
BW(k) == 2 ^ k.W
RFp(k) == BW(k) ^ FP_DIGS(k)
RDv(k) == RFp(k) * RFp(k)

(* FP_SPACE: the top word of the prime leaves at least two bits free.      *)
FP_SPACE(k) == (FP_PRIME(k) % k.W) # 0 /\ (FP_PRIME(k) % k.W) <= k.W - 2

(* The prime-field primitives the kernels call.                            *)
fp_addn_low(k, x, y) == (x + y) % RFp(k)

fp_addm_low(k, x, y) ==
    LET s == (x + y) % RFp(k)
    IN  IF x + y >= RFp(k) \/ s >= k.p THEN (s - k.p) % RFp(k) ELSE s

fp_muln_low(k, x, y) == x * y

fp_addd_low(k, x, y) == (x + y) % RDv(k)

fp_subd_low(k, x, y) == (x - y) % RDv(k)

fp_addc_low(k, x, y) ==
    LET s  == (x + y) % RDv(k)
        hi == s \div RFp(k)
        lo == s % RFp(k)
    IN  IF x + y >= RDv(k) \/ hi >= k.p
        THEN lo + RFp(k) * ((hi - k.p) % RFp(k))
        ELSE s

fp_subc_low(k, x, y) ==
    LET d  == (x - y) % RDv(k)
        hi == d \div RFp(k)
        lo == d % RFp(k)
    IN  IF x < y THEN lo + RFp(k) * ((hi + k.p) % RFp(k)) ELSE d

(* bn_lshb_low / bn_rshb_low on a window of n digits holding x.            *)
bn_lshb_low(k, x, n, bits) == (x * 2 ^ bits) % (BW(k) ^ n)
bn_rshb_low(k, x, n, bits) == x \div (2 ^ bits)

RECURSIVE SubcTimes(_, _, _, _)
(* for (i = -1; i > nr; i--) fp_subc_low(x, x, y): n = i - nr runs left.   *)
SubcTimes(k, x, y, n) ==
    IF n <= 0 THEN x ELSE SubcTimes(k, fp_subc_low(k, x, y), y, n - 1)

RECURSIVE SubdTimes(_, _, _, _)
SubdTimes(k, x, y, n) ==
    IF n <= 0 THEN x ELSE SubdTimes(k, fp_subd_low(k, x, y), y, n - 1)

(* The number of times the body of for (i = -1; i > nr; i--) runs.         *)
NrLoopRuns(nr) == IF -1 > nr THEN -1 - nr ELSE 0

(* fp2_muln_low with the extra subtractions compiled out (FP_QNRES) for a  *)
(* field whose non-residue is not -1.                                      *)
fp2_muln_low_NoQnrLoop(k, x, y) ==
    LET a0 == x[1]
        a1 == x[2]
        b0 == y[1]
        b1 == y[2]
        t0 == IF FP_SPACE(k) THEN fp_addn_low(k, a0, a1) ELSE fp_addm_low(k, a0, a1)
        t1 == IF FP_SPACE(k) THEN fp_addn_low(k, b0, b1) ELSE fp_addm_low(k, b0, b1)
        c0 == fp_muln_low(k, a0, b0)
        c1 == fp_muln_low(k, a1, b1)
        t2 == fp_muln_low(k, t0, t1)
        u0 == IF FP_SPACE(k) THEN fp_addd_low(k, c0, c1) ELSE fp_addc_low(k, c0, c1)
        d0 == fp_subc_low(k, c0, c1)
        d1 == IF FP_SPACE(k) THEN fp_subd_low(k, t2, u0) ELSE fp_subc_low(k, t2, u0)
    IN  [c |-> <<d0, d1>>, subs |-> 1]

(* fp2_muln_low(c, a, b), lines 45-87.  subs counts the subtractions of    *)
(* a_1 * b_1 from the real part.                                           *)
fp2_muln_low(k, x, y) ==
    LET a0 == x[1]
        a1 == x[2]
        b0 == y[1]
        b1 == y[2]
        t0 == IF FP_SPACE(k) THEN fp_addn_low(k, a0, a1) ELSE fp_addm_low(k, a0, a1)
        t1 == IF FP_SPACE(k) THEN fp_addn_low(k, b0, b1) ELSE fp_addm_low(k, b0, b1)
        c0 == fp_muln_low(k, a0, b0)
        c1 == fp_muln_low(k, a1, b1)
        t2 == fp_muln_low(k, t0, t1)
        u0 == IF FP_SPACE(k) THEN fp_addd_low(k, c0, c1) ELSE fp_addc_low(k, c0, c1)
        d0 == SubcTimes(k, fp_subc_low(k, c0, c1), c1, NrLoopRuns(k.qnr))
        d1 == IF FP_SPACE(k) THEN fp_subd_low(k, t2, u0) ELSE fp_subc_low(k, t2, u0)
    IN  [c |-> <<d0, d1>>, subs |-> 1 + NrLoopRuns(k.qnr)]

(* Lines 119-122: c_0 = c_0 + 2^N * p/4 on the digits FP_DIGS - 1 and up.  *)
MulcNormalize(k, v) ==
    LET n    == FP_DIGS(k)
        low  == v % (BW(k) ^ (n - 1))
        win  == v \div (BW(k) ^ (n - 1))
        sh   == bn_lshb_low(k, win, n + 1, 2)
        d0   == sh % BW(k)
        top  == fp_addn_low(k, sh \div BW(k), k.p)
        back == bn_rshb_low(k, d0 + BW(k) * top, n + 1, 2)
    IN  low + (BW(k) ^ (n - 1)) * back

(* fp2_mulc_low(c, a, b), lines 89-123.                                    *)
fp2_mulc_low(k, x, y) ==
    LET a0 == x[1]
        a1 == x[2]
        b0 == y[1]
        b1 == y[2]
        t0 == fp_addn_low(k, a0, a1)
        t1 == fp_addn_low(k, b0, b1)
        c0 == fp_muln_low(k, a0, b0)
        c1 == fp_muln_low(k, a1, b1)
        t2 == fp_muln_low(k, t0, t1)
        u0 == fp_addd_low(k, c0, c1)
        d0 == SubdTimes(k, fp_subd_low(k, c0, c1), c1, NrLoopRuns(k.qnr))
        d1 == fp_subd_low(k, t2, u0)
    IN  <<MulcNormalize(k, d0), d1>>

(* The field parameterizations of the quadratic extension: p = 13 and      *)
(* p = 11 in two 3-bit words (FP_SPACE), p = 13 in two 2-bit words (no     *)
(* free bit) and p = 7 in two 2-bit words (one free bit).                  *)
Fp2Params ==
    { [W |-> 3, p |-> 13, qnr |-> -2, cnr |-> -1],
      [W |-> 3, p |-> 11, qnr |-> -1, cnr |-> -1],
      [W |-> 2, p |-> 13, qnr |-> -2, cnr |-> -1],
      [W |-> 2, p |-> 7,  qnr |-> -3, cnr |-> -1] }

Fp(k) == 0 .. (k.p - 1)

InitFp2 ==
    /\ cfg \in Fp2Params
    /\ fa \in Fp(cfg) \X Fp(cfg)
    /\ fb \in Fp(cfg) \X Fp(cfg)
    /\ dn = << >>
    /\ dc = << >>
    /\ pc = "fp2_muln"
    /\ IdleBn
    /\ IdleMulm
    /\ IdleArch

Fp2Muln ==
    /\ pc = "fp2_muln"
    /\ dn' = fp2_muln_low(cfg, fa, fb)
    /\ pc' = "fp2_mulc"
    /\ UNCHANGED <<cfg, fa, fb, dc>>
    /\ UNCHANGED notPp

Fp2Mulc ==
    /\ pc = "fp2_mulc"
    /\ dc' = fp2_mulc_low(cfg, fa, fb)
    /\ pc' = "fp2_done"
    /\ UNCHANGED <<cfg, fa, fb, dn>>
    /\ UNCHANGED notPp

NextFp2 == Fp2Muln \/ Fp2Mulc

SpecFp2 == InitFp2 /\ [][NextFp2]_vars

(* The schoolbook product in the quadratic extension, reduced modulo p.    *)
Schoolbook2(k, x, y) ==
    << (x[1] * y[1] + k.qnr * x[2] * y[2]) % k.p,
       (x[1] * y[2] + x[2] * y[1]) % k.p >>

ModP(k, v) == [j \in DOMAIN v |-> v[j] % k.p]

(* C2: the pair fp2_muln_low returns equals, modulo p, the schoolbook      *)
(* product (a0*b0 + qnr*a1*b1, a0*b1 + a1*b0); the real part is reached by *)
(* one subtraction of a1*b1 and -qnr - 1 further ones; p = 13, qnr = -2,   *)
(* a = (3,5), b = (4,2) gives (5, 0).                                      *)
C2_Fp2MulnSchoolbook ==
    pc \in {"fp2_mulc", "fp2_done"} =>
        /\ ModP(cfg, dn.c) = Schoolbook2(cfg, fa, fb)
        /\ dn.subs = 1 + (-cfg.qnr - 1)
        /\ (cfg.p = 13 /\ cfg.qnr = -2 /\ fa = <<3, 5>> /\ fb = <<4, 2>>
              => ModP(cfg, dn.c) = <<5, 0>>)

(* The scenario p = 13, qnr = -2, (3,5) * (4,2) has been multiplied, with  *)
(* headroom and without.                                                   *)
C2_Witness ==
    /\ pc = "fp2_done"
    /\ cfg.p = 13 /\ cfg.qnr = -2 /\ ~FP_SPACE(cfg)
    /\ fa = <<3, 5>> /\ fb = <<4, 2>>
    /\ ModP(cfg, dn.c) = <<5, 0>>

(* C8 as stated, for the parameterizations with headroom (FP_SPACE), the   *)
(* ones fp2_mulc_low's unreduced additions are written for: both           *)
(* components of fp2_mulc_low's output are congruent modulo p to those of  *)
(* fp2_muln_low's output.                                                  *)
C8_MulcAgreesWithMuln ==
    (pc = "fp2_done" /\ FP_SPACE(cfg)) => ModP(cfg, dc) = ModP(cfg, dn.c)

(* The headroom or the reducing field addition, as FP_SPACE selects.       *)
FpAdd(k, x, y) == IF FP_SPACE(k) THEN fp_addn_low(k, x, y) ELSE fp_addm_low(k, x, y)

(* fp3_muln_low(c, a, b), lines 141-194.  subs0 and subs1 count the        *)
(* subtractions that fold the wrapped terms into limbs 0 and 1, subs2 the  *)
(* loop runs spent on limb 2.                                              *)
fp3_muln_low(k, x, y) ==
    LET a0  == x[1]
        a1  == x[2]
        a2  == x[3]
        b0  == y[1]
        b1  == y[2]
        b2  == y[3]
        n   == NrLoopRuns(k.cnr)
        t0  == fp_muln_low(k, a0, b0)
        t1  == fp_muln_low(k, a1, b1)
        t2  == fp_muln_low(k, a2, b2)
        \* lines 152-166
        t3  == FpAdd(k, a1, a2)
        t4  == FpAdd(k, b1, b2)
        t5  == fp_muln_low(k, t3, t4)
        t6  == fp_addd_low(k, t1, t2)
        t4a == fp_subc_low(k, t5, t6)
        c0  == SubcTimes(k, fp_subc_low(k, t0, t4a), t4a, n)
        \* lines 168-181
        t4b == FpAdd(k, a0, a1)
        t5b == FpAdd(k, b0, b1)
        t6b == fp_muln_low(k, t4b, t5b)
        t4c == fp_addd_low(k, t0, t1)
        t4d == fp_subc_low(k, t6b, t4c)
        c1  == SubcTimes(k, fp_subc_low(k, t4d, t2), t2, n)
        \* lines 183-193
        t5c == FpAdd(k, a0, a2)
        t6c == FpAdd(k, b0, b2)
        t4e == fp_muln_low(k, t5c, t6c)
        t6d == fp_addd_low(k, t0, t2)
        t5d == fp_subc_low(k, t4e, t6d)
        c2  == fp_addc_low(k, t5d, t1)
    IN  [c |-> <<c0, c1, c2>>, subs0 |-> 1 + n, subs1 |-> 1 + n, subs2 |-> 0]

(* The field parameterizations of the cubic extension: p = 5 in one 5-bit  *)
(* word (FP_SPACE), p = 5 in two 2-bit words (one free bit) and p = 7 in   *)
(* one 3-bit word (no free bit).                                           *)
Fp3Params ==
    { [W |-> 5, p |-> 5, qnr |-> -1, cnr |-> -2],
      [W |-> 2, p |-> 5, qnr |-> -1, cnr |-> -3],
      [W |-> 3, p |-> 7, qnr |-> -1, cnr |-> -2] }

InitFp3 ==
    /\ cfg \in Fp3Params
    /\ fa \in Fp(cfg) \X Fp(cfg) \X Fp(cfg)
    /\ fb \in Fp(cfg) \X Fp(cfg) \X Fp(cfg)
    /\ dn = << >>
    /\ dc = << >>
    /\ pc = "fp3_muln"
    /\ IdleBn
    /\ IdleMulm
    /\ IdleArch

Fp3Muln ==
    /\ pc = "fp3_muln"
    /\ dn' = fp3_muln_low(cfg, fa, fb)
    /\ pc' = "fp3_done"
    /\ UNCHANGED <<cfg, fa, fb, dc>>
    /\ UNCHANGED notPp

NextFp3 == Fp3Muln

SpecFp3 == InitFp3 /\ [][NextFp3]_vars

(* The schoolbook product in the cubic extension, reduced modulo p.        *)
Schoolbook3(k, x, y) ==
    << (x[1] * y[1] + k.cnr * (x[2] * y[3] + x[3] * y[2])) % k.p,
       (x[1] * y[2] + x[2] * y[1] + k.cnr * x[3] * y[3]) % k.p,
       (x[1] * y[3] + x[3] * y[1] + x[2] * y[2]) % k.p >>

(* C3: the triple fp3_muln_low returns equals, modulo p, the schoolbook    *)
(* product; limbs 0 and 1 each take -cnr - 1 extra subtractions and limb 2 *)
(* none.                                                                   *)
C3_Fp3MulnSchoolbook ==
    pc = "fp3_done" =>
        /\ ModP(cfg, dn.c) = Schoolbook3(cfg, fa, fb)
        /\ dn.subs0 = 1 + (-cfg.cnr - 1)
        /\ dn.subs1 = 1 + (-cfg.cnr - 1)
        /\ dn.subs2 = 0

(***************************************************************************)
(* fp2_mulm_low (lines 125-139) and fp3_mulm_low (lines 196-210): the same *)
(* TRY / CATCH_ANY / FINALLY shape around a scoped double-width pair or    *)
(* triple; Len(fa) tells which.  A handle is "null", "live" or "stale"     *)
(* (not null and owning no buffer, as t is before dv2_null).               *)
(***************************************************************************)
Deg == Len(fa)

(* dv2_null / dv3_null: every handle of t is set to null.                  *)
dv_null(n) == [h |-> [j \in 1 .. n |-> "null"], v |-> [j \in 1 .. n |-> 0]]

(* dv2_new / dv3_new: the components are acquired in order; the            *)
(* acquisition of component failAt faults (0: none does), leaving the      *)
(* earlier ones acquired.                                                  *)
dv_new(b, failAt) ==
    LET n   == Len(b.h)
        got == IF failAt = 0 THEN n ELSE failAt - 1
    IN  [b EXCEPT !.h = [j \in 1 .. n |-> IF j <= got THEN "live" ELSE b.h[j]]]

Acquired(failAt, n) == IF failAt = 0 THEN n ELSE failAt - 1

(* dv2_free / dv3_free: every component that is not null is released and   *)
(* its handle set to null.                                                 *)
dv_free(b, m) ==
    LET n     == Len(b.h)
        lives == Cardinality({j \in 1 .. n : b.h[j] = "live"})
        stale == \E j \in 1 .. n : b.h[j] = "stale"
    IN  [t |-> [b EXCEPT !.h = [j \in 1 .. n |-> "null"]],
         mem |-> [m EXCEPT !.live = m.live - lives, !.twice = m.twice \/ stale]]

(* fp2_rdcn_low / fp3_rdcn_low: each double-width component reduced        *)
(* modulo p into the output; a fault at component failAt leaves it and the *)
(* later ones unwritten.                                                   *)
fp_rdcn(k, o, v, failAt) ==
    [j \in 1 .. Len(o) |-> IF failAt = 0 \/ j < failAt THEN v[j] % k.p ELSE o[j]]

(* The non-reducing kernel the call runs into t.                           *)
MulnInto(k, x, y) ==
    IF Len(x) = 2 THEN fp2_muln_low(k, x, y).c ELSE fp3_muln_low(k, x, y).c

(* TRY: a fault in the body leaves it for the CATCH_ANY block.             *)
AfterTryStep_FallThrough(faulted, next) == next

AfterTryStep(faulted, next) == IF faulted THEN "mulm_catch" ELSE next

(* FINALLY: the block runs on every way out of TRY and CATCH_ANY.          *)
FinallyRuns_OnlyOnSuccess(e) == e = "none"

FinallyRuns(e) == TRUE

MulmInputs ==
    { [k |-> [W |-> 3, p |-> 13, qnr |-> -2, cnr |-> -1], x |-> <<3, 5>>, y |-> <<4, 2>>],
      [k |-> [W |-> 3, p |-> 13, qnr |-> -2, cnr |-> -1], x |-> <<12, 12>>, y |-> <<12, 1>>],
      [k |-> [W |-> 2, p |-> 7, qnr |-> -3, cnr |-> -1], x |-> <<6, 2>>, y |-> <<0, 5>>],
      [k |-> [W |-> 5, p |-> 5, qnr |-> -1, cnr |-> -2], x |-> <<1, 2, 3>>, y |-> <<2, 0, 4>>],
      [k |-> [W |-> 2, p |-> 5, qnr |-> -1, cnr |-> -3], x |-> <<4, 4, 4>>, y |-> <<4, 3, 4>>] }

(* Buffers the caller already holds at the call.                           *)
MaxHeld == 1

InitMulm ==
    /\ \E in \in MulmInputs :
        /\ cfg = in.k
        /\ fa = in.x
        /\ fb = in.y
        /\ out \in {[j \in 1 .. Len(in.x) |-> 0], [j \in 1 .. Len(in.x) |-> in.k.p - 1]}
    /\ out0 = out
    /\ dn = << >>
    /\ dc = << >>
    /\ t = [h |-> [j \in 1 .. Len(fa) |-> "stale"], v |-> [j \in 1 .. Len(fa) |-> 0]]
    /\ \E held \in 0 .. MaxHeld : mem = [live |-> held, base |-> held, twice |-> FALSE]
    /\ err = "none"
    /\ ran = {}
    /\ \E e \in BOOLEAN : ctx = [encl |-> e, fault |-> "none", got |-> 0]
    /\ pc = "mulm_null"
    /\ IdleBn
    /\ IdleArch

(* dv2_null(t), line 128.                                                  *)
MulmNull ==
    /\ pc = "mulm_null"
    /\ t' = dv_null(Deg)
    /\ pc' = "mulm_new"
    /\ UNCHANGED <<out, out0, mem, err, ran, ctx>>
    /\ UNCHANGED notMulm

(* dv2_new(t), line 131.                                                   *)
MulmNew ==
    /\ pc = "mulm_new"
    /\ \E failAt \in 0 .. Deg :
        /\ t' = dv_new(t, failAt)
        /\ mem' = [mem EXCEPT !.live = mem.live + Acquired(failAt, Deg)]
        /\ err' = IF failAt # 0 THEN "ERR_NO_MEMORY" ELSE err
        /\ ctx' = IF failAt # 0
                  THEN [ctx EXCEPT !.fault = "new", !.got = Acquired(failAt, Deg)]
                  ELSE [ctx EXCEPT !.got = Deg]
        /\ pc' = AfterTryStep(failAt # 0, "mulm_muln")
    /\ UNCHANGED <<out, out0, ran>>
    /\ UNCHANGED notMulm

(* fp2_muln_low(t, a, b), line 132.                                        *)
MulmMuln ==
    /\ pc = "mulm_muln"
    /\ t' = [t EXCEPT !.v = MulnInto(cfg, fa, fb)]
    /\ ran' = ran \cup {"muln"}
    /\ pc' = "mulm_rdcn"
    /\ UNCHANGED <<out, out0, mem, err, ctx>>
    /\ UNCHANGED notMulm

(* fp2_rdcn_low(c, t), line 133.                                           *)
MulmRdcn ==
    /\ pc = "mulm_rdcn"
    /\ \E failAt \in 0 .. Deg :
        /\ out' = fp_rdcn(cfg, out, t.v, failAt)
        /\ err' = IF failAt # 0 THEN "ERR_NO_MEMORY" ELSE err
        /\ ctx' = IF failAt # 0 THEN [ctx EXCEPT !.fault = "rdcn"] ELSE ctx
        /\ pc' = AfterTryStep(failAt # 0, "mulm_finally")
    /\ ran' = ran \cup {"rdcn"}
    /\ UNCHANGED <<out0, t, mem>>
    /\ UNCHANGED notMulm

(* CATCH_ANY { THROW(ERR_CAUGHT); }, lines 134-135.                        *)
MulmCatch ==
    /\ pc = "mulm_catch"
    /\ err' = "ERR_CAUGHT"
    /\ pc' = "mulm_finally"
    /\ UNCHANGED <<out, out0, t, mem, ran, ctx>>
    /\ UNCHANGED notMulm

(* FINALLY { dv2_free(t); }, lines 136-138, and the way out of the call:   *)
(* a return, or the fault going to the enclosing handler or, without one,  *)
(* to the library's error state.                                           *)
MulmFinally ==
    /\ pc = "mulm_finally"
    /\ IF FinallyRuns(err)
       THEN LET f == dv_free(t, mem)
            IN  /\ t' = f.t
                /\ mem' = f.mem
       ELSE UNCHANGED <<t, mem>>
    /\ pc' = IF err = "none" THEN "mulm_ret"
             ELSE IF ctx.encl THEN "mulm_outer_catch" ELSE "mulm_signalled"
    /\ UNCHANGED <<out, out0, err, ran, ctx>>
    /\ UNCHANGED notMulm

NextMulm ==
    MulmNull \/ MulmNew \/ MulmMuln \/ MulmRdcn \/ MulmCatch \/ MulmFinally

SpecMulm == InitMulm /\ [][NextMulm]_vars

MulmEnded == pc \in {"mulm_ret", "mulm_outer_catch", "mulm_signalled"}

(* C5: once the acquisition of the scoped buffer has faulted (also after   *)
(* part of the pair or triple was obtained), neither the multiplication    *)
(* nor the reduction runs, the caller's output stays as it was, and the    *)
(* call ends signalling ERR_CAUGHT instead of returning.                   *)
C5_AcquisitionFault ==
    ctx.fault = "new" =>
        /\ ran = {}
        /\ out = out0
        /\ pc \notin {"mulm_muln", "mulm_rdcn", "mulm_ret"}
        /\ (MulmEnded => err = "ERR_CAUGHT")

(* fp3_mulm_low has ended after a fault at the third acquisition.          *)
C5_Witness ==
    /\ MulmEnded
    /\ ctx.fault = "new"
    /\ Deg = 3
    /\ ctx.got = 2

(* C6: when the call has ended, by a return or by a fault of acquisition   *)
(* or reduction, re-thrown to an enclosing handler or not, as many         *)
(* double-width buffers are outstanding as before the call, every handle   *)
(* of t is null and none was released twice.                               *)
C6_BufferReleased ==
    MulmEnded =>
        /\ mem.live = mem.base
        /\ ~mem.twice
        /\ \A j \in 1 .. Deg : t.h[j] = "null"

(* A call whose reduction faulted has ended in the enclosing handler.      *)
C6_Witness ==
    /\ pc = "mulm_outer_catch"
    /\ ctx.fault = "rdcn"
    /\ ctx.got = Deg
    /\ mem.base = MaxHeld

(***************************************************************************)
(* The architecture layer: arch_init, arch_clean, arch_cycles, arch_lzcnt. *)
(* A word of more than 31 bits is the set of the positions of its one      *)
(* bits.  One thread runs arch_init and arch_clean; the threads of Readers *)
(* call arch_lzcnt and arch_cycles.  Every call takes two steps: its entry *)
(* (core_get() and, in arch_init, has_lzcnt_hard()) and its access to      *)
(* lzcnt_ptr.                                                              *)
(***************************************************************************)
Readers == {"r1", "r2"}

WordSizes == {32, 64}

XBits == { {}, {0}, {5, 16}, {31}, {32}, {0, 63} }

XSample(w) == {x \in XBits : \A b \in x : b < w}

MaxBit(x) == CHOOSE b \in x : \A o \in x : o <= b

(* The number of leading zero bits of x as a w-bit word.                   *)
LeadingZeros(x, w) == IF x = {} THEN w ELSE w - 1 - MaxBit(x)

(* (uint32_t)x.                                                            *)
Uint32(x) == {b \in x : b < 32}

(* lzcnt32_hard and lzcnt32_soft: the leading zeros of a 32-bit argument.  *)
lzcnt32(y) == LeadingZeros(y, 32)

(* The target arch_init stores with both outcomes of the test swapped.     *)
InitTarget_Swapped(h) == IF h THEN "lzcnt32_soft" ELSE "lzcnt32_hard"

(* Line 45: has_lzcnt_hard() ? lzcnt32_hard : lzcnt32_soft.                *)
InitTarget(h) == IF h THEN "lzcnt32_hard" ELSE "lzcnt32_soft"

(* Line 65: lzcnt_ptr((uint32_t)x) - (8 * sizeof(uint32_t) - WSIZE).  The  *)
(* subtraction is unsigned; for WSIZE >= 32 its result, cut to uint_t, is  *)
(* the integer below.                                                      *)
arch_lzcnt(x, w) == lzcnt32(Uint32(x)) - (8 * 4 - w)

IdleReader == [pc |-> "idle", x |-> {}, seen |-> "none", ret |-> 0,
               startwin |-> FALSE, loadwin |-> FALSE]

InitArch ==
    /\ lzcnt_ptr = "NULL"
    /\ hw \in BOOLEAN
    /\ wsize \in WordSizes
    /\ life = [pc |-> "idle", sel |-> "NULL", last |-> "none"]
    /\ rd = [r \in Readers |-> IdleReader]
    /\ window = "none"
    /\ pc = "arch"
    /\ IdleBn
    /\ IdlePp
    /\ IdleMulm

(* arch_init: the entry, and the store of line 45.                         *)
ArchInitEnter ==
    /\ life.pc = "idle"
    /\ life' = [life EXCEPT !.pc = "init_store", !.sel = InitTarget(hw)]
    /\ UNCHANGED <<lzcnt_ptr, hw, wsize, rd, window>>
    /\ UNCHANGED notArch

ArchInitStore ==
    /\ life.pc = "init_store"
    /\ lzcnt_ptr' = life.sel
    /\ life' = [life EXCEPT !.pc = "idle", !.last = "arch_init"]
    /\ window' = "open"
    /\ UNCHANGED <<hw, wsize, rd>>
    /\ UNCHANGED notArch

(* arch_clean: the entry, and the store of line 49.                        *)
ArchCleanEnter ==
    /\ life.pc = "idle"
    /\ life' = [life EXCEPT !.pc = "clean_store"]
    /\ window' = "closed"
    /\ UNCHANGED <<lzcnt_ptr, hw, wsize, rd>>
    /\ UNCHANGED notArch

ArchCleanStore ==
    /\ life.pc = "clean_store"
    /\ lzcnt_ptr' = "NULL"
    /\ life' = [life EXCEPT !.pc = "idle", !.last = "arch_clean"]
    /\ UNCHANGED <<hw, wsize, rd, window>>
    /\ UNCHANGED notArch

ReaderFree(r) == rd[r].pc \in {"idle", "lz_ret", "cy_ret"}

(* arch_lzcnt(x): the entry.                                               *)
LzcntEnter(r) ==
    /\ ReaderFree(r)
    /\ \E x \in XSample(wsize) :
        rd' = [rd EXCEPT ![r] = [pc |-> "lz_load", x |-> x, seen |-> "none", ret |-> 0,
                                 startwin |-> (window = "open"), loadwin |-> FALSE]]
    /\ UNCHANGED <<lzcnt_ptr, hw, wsize, life, window>>
    /\ UNCHANGED notArch

(* arch_lzcnt(x): the load of lzcnt_ptr and the call through it.  A call   *)
(* through a null target does not return.                                  *)
LzcntCall(r) ==
    /\ rd[r].pc = "lz_load"
    /\ rd' = [rd EXCEPT ![r].seen = lzcnt_ptr,
                        ![r].loadwin = (window = "open"),
                        ![r].ret = IF lzcnt_ptr = "NULL" THEN 0
                                   ELSE arch_lzcnt(rd[r].x, wsize),
                        ![r].pc = IF lzcnt_ptr = "NULL" THEN "null_call" ELSE "lz_ret"]
    /\ UNCHANGED <<lzcnt_ptr, hw, wsize, life, window>>
    /\ UNCHANGED notArch

(* arch_cycles(): the two halves of the time stamp counter.                *)
Cycles(r) ==
    /\ ReaderFree(r)
    /\ \E hi \in {0, 1}, lo \in {0, 1} :
        rd' = [rd EXCEPT ![r] = [IdleReader EXCEPT !.pc = "cy_ret", !.ret = <<lo, hi>>]]
    /\ UNCHANGED <<lzcnt_ptr, hw, wsize, life, window>>
    /\ UNCHANGED notArch

NextArch ==
    \/ ArchInitEnter
    \/ ArchInitStore
    \/ ArchCleanEnter
    \/ ArchCleanStore
    \/ \E r \in Readers : LzcntEnter(r) \/ LzcntCall(r) \/ Cycles(r)

SpecArch == InitArch /\ [][NextArch]_vars

(* C7 as stated: an arch_lzcnt(x) that went through a bound target returns *)
(* the number of leading zero bits of x as a WSIZE-bit word.               *)
C7_LzcntCorrect ==
    \A r \in Readers :
        rd[r].pc = "lz_ret" => rd[r].ret = LeadingZeros(rd[r].x, wsize)

(* The implementation arch_init is to bind on this processor.              *)
Expected == IF hw THEN "lzcnt32_hard" ELSE "lzcnt32_soft"

LzcntLoaded(r) == rd[r].pc \in {"lz_ret", "null_call"}

(* C9 as stated, its third part: an arch_lzcnt that started after an       *)
(* arch_init ended and before the next arch_clean started has observed     *)
(* the implementation arch_init bound.                                     *)
C9_StartedInWindowSeesBound ==
    \A r \in Readers :
        (LzcntLoaded(r) /\ rd[r].startwin) => rd[r].seen = Expected

C9_State ==
    /\ window = "open" => lzcnt_ptr = Expected
    /\ \A r \in Readers :
        (LzcntLoaded(r) /\ rd[r].startwin /\ rd[r].loadwin) => rd[r].seen = Expected
    /\ (life.pc = "idle" /\ life.last = "arch_clean") => lzcnt_ptr = "NULL"

C9_Step ==
    /\ rd' # rd => lzcnt_ptr' = lzcnt_ptr
    /\ (life.pc = "init_store" /\ life'.pc = "idle")
          => (lzcnt_ptr' = Expected /\ lzcnt_ptr' # "NULL")
    /\ (life.pc = "clean_store" /\ life'.pc = "idle") => lzcnt_ptr' = "NULL"

(* C9 amended: in every interleaving, arch_init binds the hardware         *)
(* implementation if the processor has it and the software one otherwise,  *)
(* never null, and the target stays so until an arch_clean starts; a step  *)
(* of arch_lzcnt or arch_cycles never writes the target; an arch_lzcnt     *)
(* that started after an arch_init ended and loaded the target before the  *)
(* next arch_clean started has observed the implementation arch_init       *)
(* bound; after arch_clean the target is null.                             *)
C9_DispatchTarget == []C9_State /\ [][C9_Step]_vars

(* Both readers have gone through the target arch_init bound, inside the   *)
(* window.                                                                 *)
C9_Witness ==
    /\ window = "open"
    /\ life.last = "arch_init"
    /\ \A r \in Readers :
        /\ rd[r].pc = "lz_ret"
        /\ rd[r].startwin
        /\ rd[r].loadwin
        /\ rd[r].seen = Expected

=============================================================================
